---- MODULE Spec2Model ----
(***************************************************************************)
(* A model of src/main.py: the homework extraction script.  One run of     *)
(* main() unzips an archive into the scratch directory "temp", reads the   *)
(* roster, turns every roster line into a canonical token, walks the       *)
(* 'Abgaben' folder and copies the first PDF of every folder whose name    *)
(* contains a token into the output directory, logs any error and removes  *)
(* the scratch directory.                                                  *)
(*                                                                         *)
(* Strings are sequences of characters (one-character strings), so that    *)
(* replace, lower, the umlaut map, `in` and endswith are computed as       *)
(* Python computes them.  The file system is the part of it the script     *)
(* touches: the scratch directory, the extracted 'Abgaben' folder and the  *)
(* output directory, which is taken to lie outside the scratch directory.  *)
(* Entries inside a submission folder are regular files.                   *)
(***************************************************************************)
EXTENDS FiniteSets, Integers, Sequences, TLC

VARIABLES
    pc,            \* the stage main() is in
    run,           \* "first" or "second" invocation of the tool
    archive,       \* input: the file given with --z
    roster,        \* input: resources/students.txt, unreadable or its lines
    out0,          \* input: the output directory before the run
    temp0,         \* input: whether "temp" existed before the run
    temp_exists,   \* whether the directory "temp" exists
    temp_files,    \* what lies under "temp": "stale" files, the "archive" tree
    out,           \* the output directory: a set of [name, data]
    student_list,  \* main's student_list
    prepared,      \* the list prepare_student_names returned
    student_set,   \* main's student_set
    listing,       \* os.listdir(folder) of extract_homeworks
    idx,           \* position of the loop in listing
    dir_files,     \* os.listdir(homework_path) of the last opened entry
    pdf_files,     \* extract_homeworks' pdf_files of the last opened entry
    opened,        \* names of the entries whose content was listed
    copies,        \* the copyfile calls made: [folder, name, data]
    log,           \* the log lines: [level, msg, name]
    pending,       \* the exception still propagating, or "none"
    err,           \* the exception the run raised, or "none"
    cleanups,      \* how often the finally block ran in this run
    exit_status,   \* the process's exit status, -1 while it runs
    out_first      \* the output directory the first invocation left

vars == <<pc, run, archive, roster, out0, temp0, temp_exists, temp_files, out,
          student_list, prepared, student_set, listing, idx, dir_files, pdf_files,
          opened, copies, log, pending, err, cleanups, exit_status, out_first>>

(***************************************************************************)
(* Bounds of the model.                                                    *)
(***************************************************************************)
MaxEntries == 2      \* entries of the 'Abgaben' folder
MaxRoster == 2       \* lines of the roster file
MaxNameLen == 3      \* length of a roster name drawn from the alphabet
MaxPairLen == 1      \* the same, for the names of a two-line roster

(***************************************************************************)
(* Strings.                                                                *)
(***************************************************************************)
UpperChars == <<"A", "B", "C", "D", "E", "F", "G", "H", "I", "J", "K", "L", "M",
                "N", "O", "P", "Q", "R", "S", "T", "U", "V", "W", "X", "Y", "Z",
                "Ä", "Ö", "Ü", "É">>
LowerChars == <<"a", "b", "c", "d", "e", "f", "g", "h", "i", "j", "k", "l", "m",
                "n", "o", "p", "q", "r", "s", "t", "u", "v", "w", "x", "y", "z",
                "ä", "ö", "ü", "é">>

\* str.lower() on one character
Lower(c) ==
    IF \E i \in DOMAIN UpperChars : UpperChars[i] = c
    THEN LowerChars[CHOOSE i \in DOMAIN UpperChars : UpperChars[i] = c]
    ELSE c

\* str.lower()
LowerStr(s) == [i \in DOMAIN s |-> Lower(s[i])]

\* str.replace(", ", "_"): left to right, non-overlapping
RECURSIVE Replace(_)
Replace(s) ==
    IF s = <<>> THEN <<>>
    ELSE IF Len(s) >= 2 /\ s[1] = "," /\ s[2] = " "
    THEN <<"_">> \o Replace(SubSeq(s, 3, Len(s)))
    ELSE <<s[1]>> \o Replace(Tail(s))

\* umlaut_map.get(c, c)
umlaut_map(c) ==
    CASE c = "ä" -> <<"a", "e">>
      [] c = "ö" -> <<"o", "e">>
      [] c = "ü" -> <<"u", "e">>
      [] c = "ß" -> <<"s", "s">>
      [] OTHER -> <<c>>

\* ''.join(umlaut_map.get(c, c) for c in s)
RECURSIVE JoinMapped(_)
JoinMapped(s) ==
    IF s = <<>> THEN <<>> ELSE umlaut_map(s[1]) \o JoinMapped(Tail(s))

\* the token with the umlaut map applied before lower-casing
TokenMapFirst(student) ==
    CHOOSE t \in { LowerStr(m) : m \in { JoinMapped(r) : r \in {Replace(student)} } } : TRUE

\* the token of one roster name: line 83, each call applied to the value
\* of the call before it
Token(student) ==
    CHOOSE t \in { JoinMapped(l) : l \in { LowerStr(r) : r \in {Replace(student)} } } : TRUE

prepare_student_names(students) == [i \in DOMAIN students |-> Token(students[i])]

\* set(list)
SetOf(list) == {list[i] : i \in DOMAIN list}

\* line.strip(): leading and trailing blanks removed
RECURSIVE LStrip(_)
LStrip(s) == IF s # <<>> /\ s[1] = " " THEN LStrip(Tail(s)) ELSE s

RECURSIVE RStrip(_)
RStrip(s) ==
    IF s # <<>> /\ s[Len(s)] = " " THEN RStrip(SubSeq(s, 1, Len(s) - 1)) ELSE s

Strip(s) == RStrip(LStrip(s))

\* needle in hay: the search for a contiguous occurrence, from the left
RECURSIVE Contains(_, _)
Contains(hay, needle) ==
    IF Len(needle) > Len(hay) THEN FALSE
    ELSE IF SubSeq(hay, 1, Len(needle)) = needle THEN TRUE
    ELSE Contains(Tail(hay), needle)

\* f.endswith(suffix)
EndsWith(f, suffix) ==
    /\ Len(f) >= Len(suffix)
    /\ SubSeq(f, Len(f) - Len(suffix) + 1, Len(f)) = suffix

DotPdf == <<".", "p", "d", "f">>

\* the test of line 101 without .lower()
MatchesCaseSensitive(homework, tokens) ==
    \E name \in {homework} : \E student \in tokens : Contains(name, student)

\* any(student in homework.lower() for student in student_set)
Matches(homework, tokens) ==
    \E lowered \in {LowerStr(homework)} : \E student \in tokens : Contains(lowered, student)

\* the list of line 103 without its filter
SelectAny(files) == files

\* [f for f in files if f.endswith('.pdf')], files in listing order
SelectPdf(files) == SelectSeq(files, LAMBDA f : EndsWith(f.name, DotPdf))

\* the orders os.listdir may return the members of S in
ListDir(S) ==
    {f \in [1..Cardinality(S) -> S] : \A i, j \in DOMAIN f : i # j => f[i] # f[j]}

\* a copy under one fixed destination name
CopyFileFixedName(dir, f) ==
    {g \in dir : g.name # <<"h", "w", ".", "p", "d", "f">>}
    \cup {[name |-> <<"h", "w", ".", "p", "d", "f">>, data |-> f.data]}

\* shutil.copyfile into the directory dir, under the source's file name
CopyFile(dir, f) == {g \in dir : g.name # f.name} \cup {[name |-> f.name, data |-> f.data]}

(***************************************************************************)
(* The inputs of a run: concrete roster lines, submission entries and      *)
(* files, chosen so that every case of the script happens.                 *)
(***************************************************************************)
MuellerHansLine == <<"M", "ü", "l", "l", "e", "r", ",", " ", "H", "a", "n", "s">>
GrossUweLine == <<"G", "r", "o", "ß", ",", " ", "U", "w", "e", " ">>
MuellerHansToken == <<"m", "u", "e", "l", "l", "e", "r", "_", "h", "a", "n", "s">>
Mueller_Hans_123 == <<"M", "u", "e", "l", "l", "e", "r", "_", "H", "a", "n", "s", "_", "1", "2", "3">>
Unknown_Person == <<"U", "n", "k", "n", "o", "w", "n", "_", "P", "e", "r", "s", "o", "n">>
Gross_Uwe_7 == <<"G", "r", "o", "s", "s", "_", "U", "w", "e", "_", "7">>
MUELLER_HANS_2 == <<"M", "U", "E", "L", "L", "E", "R", "_", "H", "A", "N", "S", "_", "2">>
mueller_hans_txt == <<"m", "u", "e", "l", "l", "e", "r", "_", "h", "a", "n", "s", ".", "t", "x", "t">>
hw1_pdf == <<"h", "w", "1", ".", "p", "d", "f">>
hw2_pdf == <<"h", "w", "2", ".", "p", "d", "f">>
essay_pdf == <<"e", "s", "s", "a", "y", ".", "p", "d", "f">>
notes_txt == <<"n", "o", "t", "e", "s", ".", "t", "x", "t">>
scan_PDF == <<"s", "c", "a", "n", ".", "P", "D", "F">>
old_pdf == <<"o", "l", "d", ".", "p", "d", "f">>
BlankLine == <<>>

File(n, d) == [name |-> n, data |-> d]
Entry(n, d, fs) == [name |-> n, isdir |-> d, files |-> fs]

\* what the 'Abgaben' folder of an archive may hold
EntryPool ==
    { Entry(Mueller_Hans_123, TRUE, {File(hw1_pdf, "d1"), File(notes_txt, "d2")}),
      Entry(Unknown_Person, TRUE, {File(essay_pdf, "d3")}),
      Entry(Gross_Uwe_7, TRUE, {File(scan_PDF, "d4"), File(notes_txt, "d5")}),
      Entry(MUELLER_HANS_2, TRUE, {File(hw2_pdf, "d6"), File(hw1_pdf, "d7")}),
      Entry(mueller_hans_txt, FALSE, {}) }

\* the file given with --z: absent, not a zip file, or a zip file with or
\* without <zip_name>/Abgaben
Archives ==
    { [kind |-> k, has_abgaben |-> FALSE, entries |-> {}] : k \in {"missing", "corrupt", "zip"} }
    \cup { [kind |-> "zip", has_abgaben |-> TRUE, entries |-> S] :
             S \in {T \in SUBSET EntryPool : Cardinality(T) <= MaxEntries} }

RosterPool == {MuellerHansLine, GrossUweLine, BlankLine}

\* resources/students.txt: unreadable, or its lines
Rosters ==
    { [readable |-> FALSE, lines |-> <<>>] }
    \cup { [readable |-> TRUE, lines |-> l] :
             l \in UNION {[1..n -> RosterPool] : n \in 0..MaxRoster} }

\* the output directory before the run
OutputDirs == { {}, {File(old_pdf, "d0"), File(hw1_pdf, "d0")} }

Alphabet == {",", " ", "H", "h", "Ä", "ä", "Ö", "ö", "Ü", "ü", "ß", "É"}

Names(n) == UNION {[1..k -> Alphabet] : k \in 0..n}

\* the rosters the normalizer is applied to
NameLists ==
    { <<nm>> : nm \in Names(MaxNameLen) }
    \cup { <<a, b>> : a \in Names(MaxPairLen), b \in Names(MaxPairLen) }
    \cup { <<>>, <<MuellerHansLine>>, <<MuellerHansLine, MuellerHansLine>> }

(***************************************************************************)
(* main(): lines 113-146.                                                  *)
(***************************************************************************)
NoInput == [kind |-> "zip", has_abgaben |-> FALSE, entries |-> {}]

Init ==
    /\ pc = "Init"
    /\ run = "first"
    /\ archive \in Archives
    /\ roster \in Rosters
    /\ out0 \in OutputDirs
    /\ temp0 \in BOOLEAN
    /\ temp_exists = temp0
    /\ temp_files = IF temp_exists THEN {"stale"} ELSE {}
    /\ out = out0
    /\ student_list = <<>>
    /\ prepared = <<>>
    /\ student_set = {}
    /\ listing = <<>>
    /\ idx = 1
    /\ dir_files = <<>>
    /\ pdf_files = <<>>
    /\ opened = {}
    /\ copies = <<>>
    /\ log = <<>>
    /\ pending = "none"
    /\ err = "none"
    /\ cleanups = 0
    /\ exit_status = -1
    /\ out_first = {}

\* a log line: its level, its message and the file or folder it names
LogLine(level, msg, name) == [level |-> level, msg |-> msg, name |-> name]

\* a handler that catches zipfile.BadZipFile only
CaughtBadZipFileOnly(e) == e = "BadZipFile"

\* except Exception: the classes the handler of main catches
Caught(e) == e \in {"BadZipFile", "FileNotFoundError", "IOError", "NotADirectoryError"}

\* an exception that is logged where it occurs and not raised again: the
\* try block goes on with its next statement
RaiseNotReraised(e, own) ==
    /\ err' = e
    /\ pending' = "none"
    /\ log' = log \o own \o <<LogLine("ERROR", e, <<>>)>>
    /\ pc' = IF pc = "Extracting" THEN "Matching" ELSE "ErrorLogged"

\* an exception e leaves the try block, after the raising function logged own
Raise(e, own) ==
    /\ err' = e
    /\ IF Caught(e)
       THEN /\ pending' = "none"
            /\ log' = log \o own \o <<LogLine("ERROR", e, <<>>)>>
            /\ pc' = "ErrorLogged"
       ELSE /\ pending' = e
            /\ log' = log \o own
            /\ pc' = "Cleanup"

\* setup_logging, parse_command_line and the two os.makedirs
Start ==
    /\ pc = "Init"
    /\ pc' = "Extracting"
    /\ temp_exists' = TRUE
    /\ UNCHANGED <<run, archive, roster, out0, temp0, temp_files, out, student_list,
                   prepared, student_set, listing, idx, dir_files, pdf_files, opened,
                   copies, log, pending, err, cleanups, exit_status, out_first>>

\* unzip: extractall succeeds
Unzip ==
    /\ pc = "Extracting"
    /\ archive.kind = "zip"
    /\ temp_files' = temp_files \cup {"archive"}
    /\ pc' = "Matching"
    /\ UNCHANGED <<run, archive, roster, out0, temp0, temp_exists, out, student_list,
                   prepared, student_set, listing, idx, dir_files, pdf_files, opened,
                   copies, log, pending, err, cleanups, exit_status, out_first>>

\* unzip: zipfile.BadZipFile, logged by unzip and raised again; the
\* archive may have been extracted in part
UnzipBadZipFile ==
    /\ pc = "Extracting"
    /\ archive.kind = "corrupt"
    /\ \E part \in SUBSET {"partial"} : temp_files' = temp_files \cup part
    /\ Raise("BadZipFile", <<LogLine("ERROR", "not a valid zip file", <<>>)>>)
    /\ UNCHANGED <<run, archive, roster, out0, temp0, temp_exists, out, student_list,
                   prepared, student_set, listing, idx, dir_files, pdf_files, opened,
                   copies, cleanups, exit_status, out_first>>

\* unzip: the file does not exist, zipfile.ZipFile raises FileNotFoundError
UnzipNoFile ==
    /\ pc = "Extracting"
    /\ archive.kind = "missing"
    /\ Raise("FileNotFoundError", <<>>)
    /\ UNCHANGED <<run, archive, roster, out0, temp0, temp_exists, temp_files, out,
                   student_list, prepared, student_set, listing, idx, dir_files, pdf_files,
                   opened, copies, cleanups, exit_status, out_first>>

\* read_student_names: IOError, logged and raised again
ReadStudentNamesFails ==
    /\ pc = "Matching"
    /\ ~roster.readable
    /\ Raise("IOError", <<LogLine("ERROR", "Error reading student names file", <<>>)>>)
    /\ UNCHANGED <<run, archive, roster, out0, temp0, temp_exists, temp_files, out,
                   student_list, prepared, student_set, listing, idx, dir_files, pdf_files,
                   opened, copies, cleanups, exit_status, out_first>>

\* read_student_names: [line.strip() for line in f]
read_student_names(r) == [i \in DOMAIN r.lines |-> Strip(r.lines[i])]

\* lines 132-137: the roster is read and normalized, 'Abgaben' is missing
AbgabenMissing ==
    /\ pc = "Matching"
    /\ roster.readable
    /\ ~archive.has_abgaben
    /\ \E names \in {read_student_names(roster)} :
         \E tokens \in {prepare_student_names(names)} :
           /\ student_list' = names
           /\ prepared' = tokens
           /\ student_set' = SetOf(tokens)
    /\ Raise("FileNotFoundError", <<>>)
    /\ UNCHANGED <<run, archive, roster, out0, temp0, temp_exists, temp_files, out,
                   listing, idx, dir_files, pdf_files, opened, copies, cleanups,
                   exit_status, out_first>>

\* lines 132-139 and 100: the roster is read and normalized, 'Abgaben'
\* exists, extract_homeworks lists it
Matching ==
    /\ pc = "Matching"
    /\ roster.readable
    /\ archive.has_abgaben
    /\ \E names \in {read_student_names(roster)} :
         \E tokens \in {prepare_student_names(names)} :
           /\ student_list' = names
           /\ prepared' = tokens
           /\ student_set' = SetOf(tokens)
    /\ listing' \in ListDir(archive.entries)
    /\ idx' = 1
    /\ pc' = "Collecting"
    /\ UNCHANGED <<run, archive, roster, out0, temp0, temp_exists, temp_files, out,
                   dir_files, pdf_files, opened, copies, log, pending, err, cleanups,
                   exit_status, out_first>>

(***************************************************************************)
(* extract_homeworks: one action per turn of the loop over the listing.    *)
(***************************************************************************)
homework == listing[idx]

InLoop == pc = "Collecting" /\ idx <= Len(listing)

\* line 101 is false: the entry is passed over
ExtractSkip ==
    /\ InLoop
    /\ ~Matches(homework.name, student_set)
    /\ idx' = idx + 1
    /\ UNCHANGED <<pc, run, archive, roster, out0, temp0, temp_exists, temp_files, out,
                   student_list, prepared, student_set, listing, dir_files, pdf_files,
                   opened, copies, log, pending, err, cleanups, exit_status,
                   out_first>>

\* line 103 on a matching entry that is no directory: os.listdir raises
ExtractNotADirectory ==
    /\ InLoop
    /\ Matches(homework.name, student_set)
    /\ ~homework.isdir
    /\ Raise("NotADirectoryError", <<>>)
    /\ UNCHANGED <<run, archive, roster, out0, temp0, temp_exists, temp_files, out,
                   student_list, prepared, student_set, listing, idx, dir_files, pdf_files,
                   opened, copies, cleanups, exit_status, out_first>>

\* ExtractCopy with a return after the first copy
ExtractCopyAndReturn ==
    /\ InLoop
    /\ Matches(homework.name, student_set)
    /\ homework.isdir
    /\ \E files \in ListDir(homework.files) :
         LET pdfs == SelectPdf(files)
         IN  /\ pdfs # <<>>
             /\ dir_files' = files
             /\ pdf_files' = pdfs
             /\ out' = CopyFile(out, pdfs[1])
             /\ copies' = Append(copies, [folder |-> homework.name,
                                          name |-> pdfs[1].name,
                                          data |-> pdfs[1].data])
             /\ log' = Append(log, LogLine("INFO", "Copied", pdfs[1].name))
    /\ opened' = opened \cup {homework.name}
    /\ idx' = Len(listing) + 1
    /\ UNCHANGED <<pc, run, archive, roster, out0, temp0, temp_exists, temp_files,
                   student_list, prepared, student_set, listing, pending, err,
                   cleanups, exit_status, out_first>>

\* lines 103-108: the first PDF of the matching folder is copied
ExtractCopy ==
    /\ InLoop
    /\ Matches(homework.name, student_set)
    /\ homework.isdir
    /\ \E files \in ListDir(homework.files) :
         LET pdfs == SelectPdf(files)
         IN  /\ pdfs # <<>>
             /\ dir_files' = files
             /\ pdf_files' = pdfs
             /\ out' = CopyFile(out, pdfs[1])
             /\ copies' = Append(copies, [folder |-> homework.name,
                                          name |-> pdfs[1].name,
                                          data |-> pdfs[1].data])
             /\ log' = Append(log, LogLine("INFO", "Copied", pdfs[1].name))
    /\ opened' = opened \cup {homework.name}
    /\ idx' = idx + 1
    /\ UNCHANGED <<pc, run, archive, roster, out0, temp0, temp_exists, temp_files,
                   student_list, prepared, student_set, listing, pending, err,
                   cleanups, exit_status, out_first>>

\* ExtractWarn as the docstring of extract_homeworks has it: a folder
\* without a PDF raises FileNotFoundError
ExtractWarnRaises ==
    /\ InLoop
    /\ Matches(homework.name, student_set)
    /\ homework.isdir
    /\ \E files \in ListDir(homework.files) :
         LET pdfs == SelectPdf(files)
         IN  /\ pdfs = <<>>
             /\ dir_files' = files
             /\ pdf_files' = pdfs
    /\ opened' = opened \cup {homework.name}
    /\ Raise("FileNotFoundError", <<>>)
    /\ UNCHANGED <<run, archive, roster, out0, temp0, temp_exists, temp_files, out,
                   student_list, prepared, student_set, listing, idx, copies,
                   cleanups, exit_status, out_first>>

\* lines 103-104, 109-110: the matching folder holds no PDF
ExtractWarn ==
    /\ InLoop
    /\ Matches(homework.name, student_set)
    /\ homework.isdir
    /\ \E files \in ListDir(homework.files) :
         LET pdfs == SelectPdf(files)
         IN  /\ pdfs = <<>>
             /\ dir_files' = files
             /\ pdf_files' = pdfs
    /\ opened' = opened \cup {homework.name}
    /\ log' = Append(log, LogLine("WARNING", "No PDF found", homework.name))
    /\ idx' = idx + 1
    /\ UNCHANGED <<pc, run, archive, roster, out0, temp0, temp_exists, temp_files, out,
                   student_list, prepared, student_set, listing, copies, pending,
                   err, cleanups, exit_status, out_first>>

\* the loop is over, extract_homeworks returns and the try block ends
ExtractReturn ==
    /\ pc = "Collecting"
    /\ idx > Len(listing)
    /\ pc' = "Cleanup"
    /\ UNCHANGED <<run, archive, roster, out0, temp0, temp_exists, temp_files, out,
                   student_list, prepared, student_set, listing, idx, dir_files, pdf_files,
                   opened, copies, log, pending, err, cleanups, exit_status,
                   out_first>>

\* lines 141-143: the handler is done, control passes to the finally block
EnterFinally ==
    /\ pc = "ErrorLogged"
    /\ pc' = "Cleanup"
    /\ UNCHANGED <<run, archive, roster, out0, temp0, temp_exists, temp_files, out,
                   student_list, prepared, student_set, listing, idx, dir_files, pdf_files,
                   opened, copies, log, pending, err, cleanups, exit_status,
                   out_first>>

\* Cleanup as the last statement of the try block instead of a finally
\* block: it is skipped when the run raised
CleanupInTry ==
    /\ pc = "Cleanup"
    /\ IF temp_exists /\ err = "none"
       THEN /\ temp_exists' = FALSE
            /\ temp_files' = {}
            /\ log' = Append(log, LogLine("INFO", "Cleaned up temporary files", <<>>))
       ELSE UNCHANGED <<temp_exists, temp_files, log>>
    /\ cleanups' = cleanups + 1
    /\ exit_status' = IF pending = "none" THEN 0 ELSE 1
    /\ pc' = "Done"
    /\ UNCHANGED <<run, archive, roster, out0, temp0, out, student_list, prepared,
                   student_set, listing, idx, dir_files, pdf_files, opened, copies,
                   pending, err, out_first>>

\* lines 143-146 and the end of the process
Cleanup ==
    /\ pc = "Cleanup"
    /\ IF temp_exists
       THEN /\ temp_exists' = FALSE
            /\ temp_files' = {}
            /\ log' = Append(log, LogLine("INFO", "Cleaned up temporary files", <<>>))
       ELSE UNCHANGED <<temp_exists, temp_files, log>>
    /\ cleanups' = cleanups + 1
    /\ exit_status' = IF pending = "none" THEN 0 ELSE 1
    /\ pc' = "Done"
    /\ UNCHANGED <<run, archive, roster, out0, temp0, out, student_list, prepared,
                   student_set, listing, idx, dir_files, pdf_files, opened, copies, pending,
                   err, out_first>>

\* lines 149-150 once more: the tool is started again on the same inputs,
\* the output directory put back to what it was before the first run
Rerun ==
    /\ pc = "Done"
    /\ run = "first"
    /\ run' = "second"
    /\ out_first' = out
    /\ out' = out0
    /\ pc' = "Init"
    /\ student_list' = <<>>
    /\ prepared' = <<>>
    /\ student_set' = {}
    /\ listing' = <<>>
    /\ idx' = 1
    /\ dir_files' = <<>>
    /\ pdf_files' = <<>>
    /\ opened' = {}
    /\ copies' = <<>>
    /\ log' = <<>>
    /\ pending' = "none"
    /\ err' = "none"
    /\ cleanups' = 0
    /\ exit_status' = -1
    /\ UNCHANGED <<archive, roster, out0, temp0, temp_exists, temp_files>>

Next ==
    \/ Start
    \/ Unzip
    \/ UnzipBadZipFile
    \/ UnzipNoFile
    \/ ReadStudentNamesFails
    \/ AbgabenMissing
    \/ Matching
    \/ ExtractSkip
    \/ ExtractNotADirectory
    \/ ExtractCopy
    \/ ExtractWarn
    \/ ExtractReturn
    \/ EnterFinally
    \/ Cleanup

\* one run of the tool
Spec == Init /\ [][Next]_vars

\* one run of the tool, which runs to its end
FairSpec == Spec /\ WF_vars(Next)

\* the tool run twice on the same inputs
SpecRerun == Init /\ [][Next \/ Rerun]_vars

(***************************************************************************)
(* prepare_student_names applied to the rosters of NameLists.              *)
(***************************************************************************)
InitNorm ==
    /\ pc = "Normalizer"
    /\ run = "first"
    /\ archive = NoInput
    /\ roster = [readable |-> TRUE, lines |-> <<>>]
    /\ out0 = {}
    /\ temp0 = FALSE
    /\ temp_exists = FALSE
    /\ temp_files = {}
    /\ out = {}
    /\ student_list \in NameLists
    /\ prepared = <<>>
    /\ student_set = {}
    /\ listing = <<>>
    /\ idx = 1
    /\ dir_files = <<>>
    /\ pdf_files = <<>>
    /\ opened = {}
    /\ copies = <<>>
    /\ log = <<>>
    /\ pending = "none"
    /\ err = "none"
    /\ cleanups = 0
    /\ exit_status = -1
    /\ out_first = {}

\* line 133
Normalize ==
    /\ pc = "Normalizer"
    /\ \E tokens \in {prepare_student_names(student_list)} :
         /\ prepared' = tokens
         /\ student_set' = SetOf(tokens)
    /\ pc' = "Normalized"
    /\ UNCHANGED <<run, archive, roster, out0, temp0, temp_exists, temp_files, out,
                   student_list, listing, idx, dir_files, pdf_files, opened, copies, log,
                   pending, err, cleanups, exit_status, out_first>>

SpecNorm == InitNorm /\ [][Normalize]_vars

(***************************************************************************)
(* The properties of the run.                                              *)
(***************************************************************************)
HasLog(level, msg) == \E i \in DOMAIN log : log[i].level = level /\ log[i].msg = msg

\* C1: when the run is over, whatever its stages did (success, invalid
\* archive, unreadable roster, missing 'Abgaben', failure while collecting),
\* the scratch directory "temp" does not exist, also when it existed before.
C1_ScratchRemoved ==
    pc = "Done" => ~temp_exists /\ temp_files = {}

\* a run on a corrupt archive, with "temp" there before the run, is over
C1_Witness ==
    /\ pc = "Done"
    /\ err = "BadZipFile"
    /\ temp0
    /\ cleanups = 1
    /\ ~temp_exists

NonBlankTokens ==
    { Token(Strip(roster.lines[i])) :
        i \in {j \in DOMAIN roster.lines : Strip(roster.lines[j]) # <<>>} }

\* t occurs in s as a contiguous substring
IsSubstring(t, s) ==
    \E k \in 0..(Len(s) - Len(t)) : SubSeq(s, k + 1, k + Len(t)) = t

\* C3: starting from an empty output directory, a file is in the output
\* directory at the end of the run only if it is the selected PDF of a
\* submission folder whose lower-cased name contains the canonical token of
\* some non-blank roster line.
C3_OnlyRosterFolders ==
    pc = "Done" /\ out0 = {} =>
      \A f \in out :
        \E e \in archive.entries :
          /\ \E t \in NonBlankTokens : IsSubstring(t, LowerStr(e.name))
          /\ \E i \in DOMAIN copies :
               copies[i] = [folder |-> e.name, name |-> f.name, data |-> f.data]

\* C5: an entry is treated as a match if and only if at least one token is
\* a contiguous substring of its lower-cased name; 'Mueller_Hans_123'
\* matches {'mueller_hans'}; an entry that contains no token is never
\* opened or copied from.
SubstringMatch(name) == \E t \in student_set : IsSubstring(t, LowerStr(name))

C5_MatchIffSubstring ==
    /\ \A i \in DOMAIN listing :
         i < idx =>
           (listing[i].name \in opened <=> SubstringMatch(listing[i].name))
    /\ \A i \in DOMAIN listing :
         ~SubstringMatch(listing[i].name) =>
           /\ listing[i].name \notin opened
           /\ \A j \in DOMAIN copies : copies[j].folder # listing[i].name
    /\ err = "NotADirectoryError" => SubstringMatch(listing[idx].name)
    /\ \A i \in DOMAIN listing :
         /\ i < idx
         /\ listing[i].name = Mueller_Hans_123
         /\ student_set = {MuellerHansToken}
         => Mueller_Hans_123 \in opened

\* 'Mueller_Hans_123' was opened for the token set {'mueller_hans'}, and
\* 'Unknown_Person' was passed over
C5_Witness ==
    /\ student_set = {MuellerHansToken}
    /\ Mueller_Hans_123 \in opened
    /\ \E i \in DOMAIN listing : i < idx /\ listing[i].name = Unknown_Person
    /\ Unknown_Person \notin opened

\* the token of a roster name, computed in one pass over the name
Digraph(c) ==
    CASE c \in {"Ä", "ä"} -> <<"a", "e">>
      [] c \in {"Ö", "ö"} -> <<"o", "e">>
      [] c \in {"Ü", "ü"} -> <<"u", "e">>
      [] c = "ß" -> <<"s", "s">>
      [] OTHER -> <<Lower(c)>>

RECURSIVE Canonical(_)
Canonical(name) ==
    IF name = <<>> THEN <<>>
    ELSE IF Len(name) >= 2 /\ name[1] = "," /\ name[2] = " "
    THEN <<"_">> \o Canonical(SubSeq(name, 3, Len(name)))
    ELSE Digraph(name[1]) \o Canonical(Tail(name))

\* C4: prepare_student_names returns for each name the string got by
\* replacing every ", " with "_", lower-casing, and replacing ä, ö, ü, ß by
\* ae, oe, ue, ss; upper-case Ä/Ö/Ü give the digraphs of their lower-case
\* forms, other accented letters are not replaced, and the token set of
\* ["Müller, Hans"] is {"mueller_hans"}.
C4_Normalizer ==
    pc = "Normalized" =>
      /\ DOMAIN prepared = DOMAIN student_list
      /\ \A i \in DOMAIN student_list :
           /\ prepared[i] = Canonical(student_list[i])
           /\ student_list[i] = <<"Ä">> => prepared[i] = <<"a", "e">>
           /\ student_list[i] = <<"Ö">> => prepared[i] = <<"o", "e">>
           /\ student_list[i] = <<"Ü">> => prepared[i] = <<"u", "e">>
           /\ student_list[i] = <<"ß">> => prepared[i] = <<"s", "s">>
           /\ student_list[i] = <<"É">> => prepared[i] = <<"é">>
           /\ student_list[i] = <<",", " ", "H">> => prepared[i] = <<"_", "h">>
      /\ student_list = <<MuellerHansLine>> => student_set = {MuellerHansToken}

\* ["Müller, Hans"] was normalized
C4_Witness ==
    /\ pc = "Normalized"
    /\ student_list = <<MuellerHansLine>>
    /\ student_set = {MuellerHansToken}

HasPdf(e) == \E f \in e.files : EndsWith(f.name, DotPdf)

CopiesFrom(name) == {i \in DOMAIN copies : copies[i].folder = name}

WarningsFor(name) == {i \in DOMAIN log : log[i] = LogLine("WARNING", "No PDF found", name)}

\* the loop is at a matching folder that holds no PDF
AtFolderWithoutPdf ==
    /\ InLoop
    /\ SubstringMatch(homework.name)
    /\ homework.isdir
    /\ ~HasPdf(homework)

\* the turn of the loop for a folder without PDF warns once and goes on
C6_Step ==
    AtFolderWithoutPdf =>
      /\ pc' = "Collecting"
      /\ idx' = idx + 1
      /\ out' = out
      /\ copies' = copies
      /\ err' = err
      /\ pending' = pending
      /\ log' = Append(log, LogLine("WARNING", "No PDF found", homework.name))

\* when the loop is through without an error, every matching folder with a
\* PDF was copied from and every one without has its one warning
C6_End ==
    pc \in {"Cleanup", "Done"} /\ err = "none" =>
      \A i \in DOMAIN listing :
        SubstringMatch(listing[i].name) =>
          IF HasPdf(listing[i])
          THEN CopiesFrom(listing[i].name) # {}
          ELSE /\ CopiesFrom(listing[i].name) = {}
               /\ Cardinality(WarningsFor(listing[i].name)) = 1

RosterTokens == SetOf(prepare_student_names(read_student_names(roster)))

MatchedEntries == {e \in archive.entries : Matches(e.name, RosterTokens)}

PdfNames(e) == {f.name : f \in {g \in e.files : EndsWith(g.name, DotPdf)}}

\* the output of a run does not depend on the listing order: every matching
\* entry is a folder with at most one PDF, and no two of these PDFs share a
\* file name
OrderFree ==
    /\ \A e \in MatchedEntries : e.isdir /\ Cardinality(PdfNames(e)) <= 1
    /\ \A e1, e2 \in MatchedEntries : e1 # e2 => PdfNames(e1) \cap PdfNames(e2) = {}

SecondRunOver == pc = "Done" /\ run = "second" /\ out0 = {}

AtFolderWithPdf ==
    /\ InLoop
    /\ SubstringMatch(homework.name)
    /\ homework.isdir
    /\ HasPdf(homework)

\* the turn of the loop for a folder with a PDF copies the first file of
\* the listing that ends in '.pdf', under its own name, and nothing else
C8_Step ==
    AtFolderWithPdf =>
      \E k \in DOMAIN dir_files' :
        /\ SetOf(dir_files') = homework.files
        /\ EndsWith(dir_files'[k].name, DotPdf)
        /\ \A j \in 1..(k - 1) : ~EndsWith(dir_files'[j].name, DotPdf)
        /\ out' = {g \in out : g.name # dir_files'[k].name} \cup {dir_files'[k]}
        /\ copies' = Append(copies, [folder |-> homework.name,
                                     name |-> dir_files'[k].name,
                                     data |-> dir_files'[k].data])
        /\ idx' = idx + 1

StageSteps ==
    { <<"Init", "Extracting">>, <<"Extracting", "Matching">>,
      <<"Matching", "Collecting">>, <<"Collecting", "Collecting">>,
      <<"Collecting", "Cleanup">>, <<"Cleanup", "Done">>,
      <<"Extracting", "ErrorLogged">>, <<"Matching", "ErrorLogged">>,
      <<"Collecting", "ErrorLogged">>, <<"ErrorLogged", "Cleanup">> }

C9_Step ==
    /\ <<pc, pc'>> \in StageSteps
    /\ err # "none" => pc' \in {"Cleanup", "Done"}
    /\ cleanups' = IF pc = "Cleanup" THEN cleanups + 1 ELSE cleanups

C10_Step ==
    /\ \A f \in out : \E g \in out' : g.name = f.name
    /\ \A g \in out' \ out :
         /\ pc = "Collecting" /\ pc' = "Collecting"
         /\ g \in homework.files
         /\ EndsWith(g.name, DotPdf)
         /\ copies' = Append(copies, [folder |-> homework.name,
                                      name |-> g.name, data |-> g.data])
         /\ \A h \in out' \ out : h = g
    /\ pc \in {"ErrorLogged", "Cleanup"} \/ pc' = "ErrorLogged" =>
         UNCHANGED <<out, archive, roster, out0, copies>>

====
